---- MODULE Spec2Model ----
(***************************************************************************)
(* CareShift scheduler: score_orders and generate_schedule                 *)
(* (src/app/services/scheduler.py) over the request and response schemas   *)
(* of src/app/schemas/clinical.py.                                         *)
(*                                                                         *)
(* Time is counted in whole minutes.  Weights, urgencies and scores are    *)
(* the doubles Python computes, bit for bit.                               *)
(***************************************************************************)
EXTENDS Integers, Sequences, FiniteSets, TLC

\* The request, locals and result of one call of generate_schedule.
VARIABLES now, shift, patients, orders, pc, patients_by_id, scored, cursor,
          tasks, notes, idx, outcome

\* The session store of core/state.py (the fields of _CONTEXT) and the reply
\* to the last request served by a route of api/routes/state.py.
VARIABLES ctx_shift, ctx_patients, ctx_orders, reply

\* The requests in flight in the state routes when the routes are served
\* concurrently, and the objects that reset_state replaced.
VARIABLES t_add, t_set, t_del, t_shift, t_get, t_reset, t_plan, orphans

\* Argument and result of one call of _compute_urgency.
VARIABLES u_mins, u_val

schedVars == <<now, shift, patients, orders, pc, patients_by_id, scored,
               cursor, tasks, notes, idx, outcome>>
storeVars == <<ctx_shift, ctx_patients, ctx_orders, reply>>
threadVars == <<t_add, t_set, t_del, t_shift, t_get, t_reset, t_plan,
               orphans>>
urgencyVars == <<u_mins, u_val>>

vars == <<schedVars, storeVars, threadVars, urgencyVars>>

(***************************************************************************)
(* Bounds of the checked instances.                                        *)
(***************************************************************************)
MaxNow == 1
MaxTime == 2
MaxPatients == 2
MaxOrders == 2
MaxOverdue == 70
MaxUntilDue == 600
MaxDemoNow == 20
MaxStoreOrders == 3
MaxConcOrders == 2
MaxInFlight == 2

NowTimes == 0..MaxNow
ShiftTimes == -1..MaxTime
DueTimes == {-90, -61, 5}
PatientIds == {"p1", "p2"}

PatientPool ==
    { [id |-> "p1", display_name |-> "Patient A", acuity |-> "critical"],
      [id |-> "p2", display_name |-> "Patient B", acuity |-> "low"] }

\* The attribute combinations orders are drawn from.
OrderKinds ==
    { [type |-> "medication", duration_minutes |-> 2, is_prn |-> TRUE, is_stat |-> FALSE],
      [type |-> "lab", duration_minutes |-> 1, is_prn |-> FALSE, is_stat |-> TRUE] }

OrderId(i) == "o" \o ToString(i)

MkOrder(i, p, k, d) ==
    [ id |-> OrderId(i), patient_id |-> p, type |-> k.type, due_at |-> d,
      duration_minutes |-> k.duration_minutes, is_prn |-> k.is_prn,
      is_stat |-> k.is_stat ]

SeqsUpTo(S, n) == UNION { [1..k -> S] : k \in 0..n }

OrderAttrs == PatientIds \X OrderKinds \X DueTimes

\* Request order lists: the i-th order carries the id "o<i>".
OrderLists ==
    { [i \in 1..Len(s) |-> MkOrder(i, s[i][1], s[i][2], s[i][3])] :
        s \in SeqsUpTo(OrderAttrs, MaxOrders) }

PatientLists == SeqsUpTo(PatientPool, MaxPatients)

(***************************************************************************)
(* Python floats.  The scores of scheduler.py are IEEE-754 doubles: every  *)
(* literal and every /, *, + and - is rounded to 53 significant bits, to   *)
(* the nearest, ties to even.  A double is modelled exactly, as sign,      *)
(* 53-bit mantissa and exponent (value s * m * 2^e); the mantissa is a     *)
(* natural number written in base 2^15, least significant digit first,     *)
(* since the numbers of the model checker have 32 bits.  Overflow,         *)
(* subnormals, infinities, NaN and the sign of zero do not matter for the  *)
(* magnitudes of scheduler.py and are not modelled.                        *)
(***************************************************************************)
\* The base of the mantissa digits, 15 binary digits each.
Base == 2^15

RECURSIVE Pow2(_)
Pow2(n) == IF n = 0 THEN 1 ELSE 2 * Pow2(n - 1)

\* The natural number n in base 2^15.
RECURSIVE BN(_)
BN(n) == IF n = 0 THEN << >> ELSE << n % Base >> \o BN(n \div Base)

\* The value of a, for an a that fits a machine integer.
RECURSIVE BInt(_)
BInt(a) == IF a = << >> THEN 0 ELSE Head(a) + Base * BInt(Tail(a))

\* a without leading zero digits.
RECURSIVE BStrip(_)
BStrip(a) ==
    IF a = << >> THEN << >>
    ELSE IF a[Len(a)] = 0 THEN BStrip(SubSeq(a, 1, Len(a) - 1))
    ELSE a

\* -1, 0, 1 as a < b, a = b, a > b.
RECURSIVE BCmp(_, _)
BCmp(a, b) ==
    IF Len(a) # Len(b) THEN (IF Len(a) < Len(b) THEN -1 ELSE 1)
    ELSE IF a = << >> THEN 0
    ELSE IF a[Len(a)] # b[Len(b)]
         THEN (IF a[Len(a)] < b[Len(b)] THEN -1 ELSE 1)
    ELSE BCmp(BStrip(SubSeq(a, 1, Len(a) - 1)), BStrip(SubSeq(b, 1, Len(b) - 1)))

\* a + b + c, c a carry digit.
RECURSIVE BAddC(_, _, _)
BAddC(a, b, c) ==
    IF a = << >> /\ b = << >> THEN (IF c = 0 THEN << >> ELSE << c >>)
    ELSE LET x == (IF a = << >> THEN 0 ELSE Head(a))
                  + (IF b = << >> THEN 0 ELSE Head(b)) + c
         IN  << x % Base >> \o BAddC(IF a = << >> THEN << >> ELSE Tail(a),
                                     IF b = << >> THEN << >> ELSE Tail(b),
                                     x \div Base)

BAdd(a, b) == BAddC(a, b, 0)

\* a - b - c for a >= b + c, c a borrow digit; leading zeros are kept.
RECURSIVE BSubC(_, _, _)
BSubC(a, b, c) ==
    IF a = << >> THEN << >>
    ELSE LET x == Head(a) - (IF b = << >> THEN 0 ELSE Head(b)) - c
         IN  << (x + Base) % Base >>
             \o BSubC(Tail(a), IF b = << >> THEN << >> ELSE Tail(b),
                      IF x < 0 THEN 1 ELSE 0)

BSub(a, b) == BStrip(BSubC(a, b, 0))

\* a * k + c for digits k and c; leading zeros are kept.
RECURSIVE BMulSmallC(_, _, _)
BMulSmallC(a, k, c) ==
    IF a = << >> THEN (IF c = 0 THEN << >> ELSE << c >>)
    ELSE LET x == Head(a) * k + c
         IN  << x % Base >> \o BMulSmallC(Tail(a), k, x \div Base)

BMulSmall(a, k) == BStrip(BMulSmallC(a, k, 0))

RECURSIVE BMul(_, _)
BMul(a, b) ==
    IF a = << >> \/ b = << >> THEN << >>
    ELSE BAdd(BMulSmall(a, Head(b)),
              LET r == BMul(a, Tail(b))
              IN  IF r = << >> THEN << >> ELSE << 0 >> \o r)

\* Quotient (with leading zeros) and remainder of a by the digit k > 0.
RECURSIVE BDivSmallR(_, _)
BDivSmallR(a, k) ==
    IF a = << >> THEN [ q |-> << >>, r |-> 0 ]
    ELSE LET hi == BDivSmallR(Tail(a), k)
             cur == hi.r * Base + Head(a)
         IN  [ q |-> << cur \div k >> \o hi.q, r |-> cur % k ]

RECURSIVE DigitBits(_)
DigitBits(d) == IF d = 0 THEN 0 ELSE 1 + DigitBits(d \div 2)

\* The number of binary digits of a.
BitLen(a) ==
    IF a = << >> THEN 0 ELSE 15 * (Len(a) - 1) + DigitBits(a[Len(a)])

\* a * 2^n.
BShl(a, n) ==
    IF a = << >> THEN << >>
    ELSE [ i \in 1..(n \div 15) |-> 0 ]
         \o BMulSmall(a, Pow2(n % 15))

\* floor(a / 2^n).
BShr(a, n) ==
    LET k == n \div 15
    IN  IF k >= Len(a) THEN << >>
        ELSE BStrip(BDivSmallR(SubSeq(a, k + 1, Len(a)), Pow2(n % 15)).q)

BOdd(a) == a # << >> /\ Head(a) % 2 = 1

RECURSIVE DigitTrailingZeros(_)
DigitTrailingZeros(d) == IF d % 2 = 1 THEN 0 ELSE 1 + DigitTrailingZeros(d \div 2)

\* The number of zero binary digits a > 0 ends with.
RECURSIVE TrailingZeros(_)
TrailingZeros(a) ==
    IF Head(a) = 0 THEN 15 + TrailingZeros(Tail(a))
    ELSE DigitTrailingZeros(Head(a))

\* The double 0.0.
FZero == [ s |-> 0, m |-> << >>, e |-> 0 ]

\* The double nearest to s * (n + t) * 2^e, where s is the sign, n a
\* natural number and 0 <= t < 1 is known only as zero (sticky = FALSE) or
\* not zero (sticky = TRUE): round to nearest, ties to even.
FRound(s, n, e, sticky) ==
    IF n = << >> THEN FZero
    ELSE LET len == BitLen(n)
         IN  IF len <= 53
             THEN [ s |-> s, m |-> BShl(n, 53 - len),
                    e |-> e - (53 - len) ]
             ELSE LET cut == len - 53
                      q == BShr(n, cut)
                      rem == BSub(n, BShl(q, cut))
                      half == BCmp(rem, BShl(<< 1 >>, cut - 1))
                      up == \/ half > 0
                            \/ half = 0 /\ (sticky \/ BOdd(q))
                      r == IF up THEN BAdd(q, << 1 >>) ELSE q
                  IN  IF BitLen(r) > 53
                      THEN [ s |-> s, m |-> BShr(r, 1), e |-> e + cut + 1 ]
                      ELSE [ s |-> s, m |-> r, e |-> e + cut ]

\* float(i) for a machine integer i.
FromInt(i) ==
    IF i = 0 THEN FZero
    ELSE FRound(IF i < 0 THEN -1 ELSE 1, BN(IF i < 0 THEN -i ELSE i), 0, FALSE)

FNeg(x) == [ s |-> 0 - x.s, m |-> x.m, e |-> x.e ]

\* abs(x).
FAbs(x) == [ s |-> IF x.s = 0 THEN 0 ELSE 1, m |-> x.m, e |-> x.e ]

\* -1, 0, 1 as |x| < |y|, |x| = |y|, |x| > |y|.
FCmpAbs(x, y) ==
    IF x.s = 0 \/ y.s = 0
    THEN (IF x.s = 0 /\ y.s = 0 THEN 0 ELSE IF x.s = 0 THEN -1 ELSE 1)
    ELSE IF x.e # y.e THEN (IF x.e < y.e THEN -1 ELSE 1)
    ELSE BCmp(x.m, y.m)

\* -1, 0, 1 as x < y, x == y, x > y.
FCmp(x, y) ==
    IF x.s # y.s THEN (IF x.s < y.s THEN -1 ELSE 1)
    ELSE x.s * FCmpAbs(x, y)

FLt(x, y) == FCmp(x, y) < 0
FLe(x, y) == FCmp(x, y) <= 0
FGt(x, y) == FCmp(x, y) > 0
FGe(x, y) == FCmp(x, y) >= 0

\* min(x, y) and max(x, y) of Python: the first argument unless the second
\* is smaller, respectively greater.
FMin(x, y) == IF FLt(y, x) THEN y ELSE x
FMax(x, y) == IF FGt(y, x) THEN y ELSE x

\* x * y.
FMul(x, y) ==
    IF x.s = 0 \/ y.s = 0 THEN FZero
    ELSE FRound(x.s * y.s, BMul(x.m, y.m), x.e + y.e, FALSE)

\* x + y.
FAdd(x, y) ==
    IF x.s = 0 THEN y
    ELSE IF y.s = 0 THEN x
    ELSE LET e == IF x.e < y.e THEN x.e ELSE y.e
             a == BShl(x.m, x.e - e)
             b == BShl(y.m, y.e - e)
             c == BCmp(a, b)
         IN  IF x.s = y.s THEN FRound(x.s, BAdd(a, b), e, FALSE)
             ELSE IF c = 0 THEN FZero
             ELSE IF c > 0 THEN FRound(x.s, BSub(a, b), e, FALSE)
             ELSE FRound(y.s, BSub(b, a), e, FALSE)

\* x - y.
FSub(x, y) == FAdd(x, FNeg(y))

\* x / y for a y # 0 whose mantissa is an odd number below 2^15 times a
\* power of two, as are all divisors of scheduler.py (30.0, 60.0, 120.0) and
\* the powers of ten of its literals: the quotient by the odd number is
\* taken to 56 binary digits or more, the rest of the division is the
\* sticky bit.
FDiv(x, y) ==
    IF x.s = 0 THEN FZero
    ELSE LET tz == TrailingZeros(y.m)
             odd == BInt(BShr(y.m, tz))
             d == BDivSmallR(BShl(x.m, 15 + 3), odd)
         IN  FRound(x.s * y.s, BStrip(d.q), x.e - (15 + 3) - (y.e + tz),
                    d.r # 0)

\* The double a decimal literal n/d denotes (n.0, n/10, n/100 ...).
Dec(n, d) == FDiv(FromInt(n), FromInt(d))

\* round(x, 2) of Python, in hundredths (scale = 100), and round(x, 1), in
\* tenths (scale = 10): the decimal with that many places nearest to the
\* exact value of x, ties to even.
FRoundDec(x, scale) ==
    IF x.s = 0 THEN 0
    ELSE LET n == BMulSmall(x.m, scale)
         IN  IF x.e >= 0 THEN x.s * BInt(BShl(n, x.e))
             ELSE LET q == BShr(n, -x.e)
                      rem == BSub(n, BShl(q, -x.e))
                      half == BCmp(rem, BShl(<< 1 >>, -x.e - 1))
                      up == half > 0 \/ (half = 0 /\ BOdd(q))
                  IN  x.s * (BInt(q) + (IF up THEN 1 ELSE 0))

(***************************************************************************)
(* Scoring weights, scheduler.py:59-73.                                    *)
(***************************************************************************)
ACUITY_WEIGHT ==
    [ low |-> Dec(10, 10), medium |-> Dec(14, 10), high |-> Dec(18, 10),
      critical |-> Dec(22, 10) ]

TYPE_WEIGHT ==
    [ medication |-> Dec(14, 10), procedure |-> Dec(13, 10),
      assessment |-> Dec(12, 10), lab |-> Dec(11, 10) ]

Max(a, b) == IF a >= b THEN a ELSE b

\* scheduler.py:90-99, minutes until due (signed): the datetimes are whole
\* minutes, so that total_seconds() / 60.0 is that whole number exactly.
_minutes_until(t, due_at) == due_at - t

\* _compute_urgency with a floor of 0.1 instead of 0.2.
_compute_urgency_LowFloor(minutes_until_due) ==
    IF minutes_until_due <= 0
    THEN FAdd(Dec(30, 10),
              FMin(FDiv(FAbs(FromInt(minutes_until_due)), Dec(300, 10)),
                   Dec(20, 10)))
    ELSE FMax(Dec(1, 10),
              FSub(Dec(25, 10),
                   FDiv(FromInt(minutes_until_due), Dec(1200, 10))))

\* _compute_urgency without the cap of 2.0 on the overdue term.
_compute_urgency_NoCap(minutes_until_due) ==
    IF minutes_until_due <= 0
    THEN FAdd(Dec(30, 10),
              FDiv(FAbs(FromInt(minutes_until_due)), Dec(300, 10)))
    ELSE FMax(Dec(2, 10),
              FSub(Dec(25, 10),
                   FDiv(FromInt(minutes_until_due), Dec(1200, 10))))

\* scheduler.py:102-127, for a whole number of minutes:
\*   overdue: 3.0 + min(abs(m) / 30.0, 2.0)
\*   else   : max(0.2, 2.5 - (m / 120.0))
_compute_urgency(minutes_until_due) ==
    IF minutes_until_due <= 0
    THEN FAdd(Dec(30, 10),
              FMin(FDiv(FAbs(FromInt(minutes_until_due)), Dec(300, 10)),
                   Dec(20, 10)))
    ELSE FMax(Dec(2, 10),
              FSub(Dec(25, 10),
                   FDiv(FromInt(minutes_until_due), Dec(1200, 10))))

\* scheduler.py:243 and core/state.py:44-45, dict comprehension: a later
\* patient with the same id replaces an earlier one.
PatientsById(ps) ==
    [ p \in { ps[i].id : i \in 1..Len(ps) } |->
        ps[CHOOSE i \in 1..Len(ps) :
              /\ ps[i].id = p
              /\ \A j \in 1..Len(ps) : ps[j].id = p => j <= i] ]

\* scheduler.py:159-206, the ScoredOrder built for one order of a known
\* patient p: score = (acuity * type * urgency) + stat_bonus - prn_penalty.
\* breakdown.urgency, round(urgency, 2), is kept in hundredths.
ScoredOrder(t, p, o) ==
    LET acuity_factor == ACUITY_WEIGHT[p.acuity]
        type_factor == TYPE_WEIGHT[o.type]
        mins == _minutes_until(t, o.due_at)
        urgency == _compute_urgency(mins)
        stat_bonus == IF o.is_stat THEN Dec(15, 10) ELSE Dec(0, 10)
        prn_penalty == IF o.is_prn THEN Dec(4, 10) ELSE Dec(0, 10)
    IN  [ order |-> o,
          score |-> FSub(FAdd(FMul(FMul(acuity_factor, type_factor), urgency),
                              stat_bonus),
                         prn_penalty),
          summary |-> << o.type, p.display_name, p.acuity, mins,
                         IF o.is_stat THEN ", STAT" ELSE "",
                         IF o.is_prn THEN ", PRN" ELSE "" >>,
          breakdown |-> [ acuity |-> p.acuity,
                          order_type |-> o.type,
                          due_in_minutes |-> mins,
                          urgency |-> FRoundDec(urgency, 100),
                          is_stat |-> o.is_stat,
                          is_prn |-> o.is_prn ] ]

\* scheduler.py:211, the sort key (-score, due_at) compared as Python
\* compares tuples.
KeyLess(a, b) ==
    \/ FGt(a.score, b.score)
    \/ FCmp(a.score, b.score) = 0 /\ a.order.due_at < b.order.due_at

\* list.sort is stable: x goes after every element whose key is not greater.
RECURSIVE SortInsert(_, _)
SortInsert(s, x) ==
    IF s = <<>> THEN <<x>>
    ELSE IF KeyLess(x, s[Len(s)])
         THEN Append(SortInsert(SubSeq(s, 1, Len(s) - 1), x), s[Len(s)])
         ELSE Append(s, x)

RECURSIVE SortStable(_)
SortStable(s) ==
    IF s = <<>> THEN <<>>
    ELSE SortInsert(SortStable(SubSeq(s, 1, Len(s) - 1)), s[Len(s)])

\* The loop without the `continue` of scheduler.py:154-157: an order of an
\* unknown patient is scored as that of a low-acuity placeholder patient.
RECURSIVE ScoreEach_KeepUnknown(_, _, _)
ScoreEach_KeepUnknown(t, pbi, os) ==
    IF os = <<>> THEN <<>>
    ELSE LET o == os[Len(os)]
             rest == ScoreEach_KeepUnknown(t, pbi, SubSeq(os, 1, Len(os) - 1))
             p == IF o.patient_id \in DOMAIN pbi
                  THEN pbi[o.patient_id]
                  ELSE [ id |-> o.patient_id, display_name |-> "Unknown patient",
                         acuity |-> "low" ]
         IN  Append(rest, ScoredOrder(t, p, o))

\* scheduler.py:152-206, the loop: orders of unknown patients are skipped.
RECURSIVE ScoreEach(_, _, _)
ScoreEach(t, pbi, os) ==
    IF os = <<>> THEN <<>>
    ELSE LET o == os[Len(os)]
             rest == ScoreEach(t, pbi, SubSeq(os, 1, Len(os) - 1))
         IN  IF o.patient_id \in DOMAIN pbi
             THEN Append(rest, ScoredOrder(t, pbi[o.patient_id], o))
             ELSE rest

\* scheduler.py:130-212.
score_orders(t, pbi, os) == SortStable(ScoreEach(t, pbi, os))

(***************************************************************************)
(* Response schemas, src/app/schemas/clinical.py.  A pydantic model is     *)
(* built from keyword arguments: every declared field without a default is *)
(* required, a missing one raises ValidationError, and keyword arguments   *)
(* that name no declared field are ignored.                                *)
(***************************************************************************)
\* clinical.py:50-56, the fields class ScheduledTask declares.
ScheduledTaskFields ==
    { "order_id", "patient_id", "starts_at", "ends_at", "priority_score",
      "rationale" }

\* clinical.py:59-73, the fields class ScheduleResponse declares.
ScheduleResponseFields ==
    { "order_id", "patient_id", "patient_display_name", "starts_at",
      "ends_at", "priority_score", "summary", "score_breakdown" }

\* BaseModel.__init__(**kwargs) for a model whose declared fields are all
\* required.
BaseModel(fields, kwargs) ==
    IF fields \subseteq DOMAIN kwargs
    THEN [ ok |-> TRUE, value |-> [ f \in fields |-> kwargs[f] ] ]
    ELSE [ ok |-> FALSE,
           value |-> [ error |-> "ValidationError",
                       missing |-> fields \ DOMAIN kwargs ] ]

ScheduledTask(kwargs) == BaseModel(ScheduledTaskFields, kwargs)
ScheduleResponse(kwargs) == BaseModel(ScheduleResponseFields, kwargs)

\* scheduler.py:268, 276, 284, 299.
NoteInvalidWindow == "Invalid shift window: end_at must be after start_at."
NoteElapsed == "Shift window has already ended relative to current time."
NoteFull == "Shift is full. Remaining tasks could not be scheduled."
NoteExceed == "A task would exceed shift end. Stopping schedule generation."

Pending == [ kind |-> "pending" ]
Returned(v) == [ kind |-> "returned", value |-> v ]
Raised(e) == [ kind |-> "raised", value |-> e ]

(***************************************************************************)
(* generate_schedule(req), scheduler.py:215-327.                           *)
(***************************************************************************)
\* core/state.py:53, _CONTEXT = ShiftContext(): no shift (None is the empty
\* sequence), no patients, no orders; no request served yet.
NoReply == [ op |-> "none", status |-> 0, id |-> "", patient_id |-> "" ]
StoreEmpty ==
    /\ ctx_shift = << >>
    /\ ctx_patients = << >>
    /\ ctx_orders = << >>
    /\ reply = NoReply

\* No request is in flight in a state route.
IdleThread == [ pc |-> "idle" ]
ThreadsIdle ==
    /\ t_add = IdleThread
    /\ t_set = IdleThread
    /\ t_del = IdleThread
    /\ t_shift = IdleThread
    /\ t_get = IdleThread
    /\ t_reset = IdleThread
    /\ t_plan = [ ctx |-> 0 ]
    /\ orphans = << >>

\* No call of _compute_urgency is under way.
UrgencyIdle ==
    /\ u_mins = 0
    /\ u_val = FZero

\* The request handed to generate_schedule and the clock reading that
\* datetime.now will return; nothing has run yet.
Init ==
    /\ StoreEmpty
    /\ ThreadsIdle
    /\ UrgencyIdle
    /\ now \in NowTimes
    /\ shift \in [ start_at : ShiftTimes, end_at : ShiftTimes ]
    /\ patients \in PatientLists
    /\ orders \in OrderLists
    /\ pc = "start"
    /\ patients_by_id = << >>
    /\ scored = << >>
    /\ cursor = 0
    /\ tasks = << >>
    /\ notes = << >>
    /\ idx = 0
    /\ outcome = Pending

\* scheduler.py:257.
InitialCursor(shift_start, t) == IF t < shift_start THEN shift_start ELSE t

\* scheduler.py:240-260: capture now, index the patients, score the orders,
\* set the cursor, start with no tasks and no notes.
Begin ==
    /\ pc = "start"
    /\ patients_by_id' = PatientsById(patients)
    /\ scored' = score_orders(now, PatientsById(patients), orders)
    /\ cursor' = InitialCursor(shift.start_at, now)
    /\ tasks' = << >>
    /\ notes' = << >>
    /\ pc' = "validate"
    /\ UNCHANGED <<now, shift, patients, orders, idx, outcome>>
    /\ UNCHANGED <<storeVars, threadVars, urgencyVars>>

\* A return statement building ScheduleResponse(...): the call ends with
\* the response, or with the error its construction raises.
ReturnResponse(kwargs) ==
    LET r == ScheduleResponse(kwargs)
    IN  /\ outcome' = (IF r.ok THEN Returned(r.value) ELSE Raised(r.value))
        /\ pc' = "done"

\* scheduler.py:264-277: the two early returns before the sweep.
Validate ==
    /\ pc = "validate"
    /\ IF shift.end_at <= shift.start_at
       THEN /\ ReturnResponse([ generated_at |-> now, tasks |-> << >>,
                                notes |-> << NoteInvalidWindow >> ])
            /\ UNCHANGED idx
       ELSE IF cursor >= shift.end_at
       THEN /\ ReturnResponse([ generated_at |-> now, tasks |-> << >>,
                                notes |-> << NoteElapsed >> ])
            /\ UNCHANGED idx
       ELSE /\ pc' = "sweep"
            /\ idx' = 1
            /\ UNCHANGED outcome
    /\ UNCHANGED <<now, shift, patients, orders, patients_by_id, scored,
                   cursor, tasks, notes>>
    /\ UNCHANGED <<storeVars, threadVars, urgencyVars>>

\* scheduler.py:307-318, the keyword arguments of the ScheduledTask built
\* for a ranked item placed at [start, end].
TaskKwargs(item, start, end) ==
    LET o == item.order
    IN  [ order_id |-> o.id,
          patient_id |-> o.patient_id,
          patient_display_name |->
              IF o.patient_id \in DOMAIN patients_by_id
              THEN patients_by_id[o.patient_id].display_name
              ELSE "Unknown patient",
          starts_at |-> start,
          ends_at |-> end,
          priority_score |-> item.score,
          summary |-> item.summary,
          score_breakdown |-> item.breakdown ]

\* scheduler.py:293, end = start + timedelta(minutes=o.duration_minutes).
TaskEnd(start, o) == start + o.duration_minutes

\* scheduler.py:297, the task does not fit in what is left of the shift.
ExceedsShift(end, shift_end) == end > shift_end

\* scheduler.py:279-321: one iteration of `for item in scored`, or the end
\* of the loop when no ranked item is left.
SweepStep ==
    /\ pc = "sweep"
    /\ IF idx > Len(scored)
       THEN /\ pc' = "return"
            /\ UNCHANGED <<cursor, tasks, notes, idx, outcome>>
       ELSE IF cursor >= shift.end_at
       THEN /\ notes' = Append(notes, NoteFull)
            /\ pc' = "return"
            /\ UNCHANGED <<cursor, tasks, idx, outcome>>
       ELSE LET item == scored[idx]
                start == cursor
                end == TaskEnd(start, item.order)
                t == ScheduledTask(TaskKwargs(item, start, end))
            IN  IF ExceedsShift(end, shift.end_at)
                THEN /\ notes' = Append(notes, NoteExceed)
                     /\ pc' = "return"
                     /\ UNCHANGED <<cursor, tasks, idx, outcome>>
                ELSE IF t.ok
                THEN /\ tasks' = Append(tasks, t.value)
                     /\ cursor' = end
                     /\ idx' = idx + 1
                     /\ UNCHANGED <<pc, notes, outcome>>
                ELSE /\ outcome' = Raised(t.value)
                     /\ pc' = "done"
                     /\ UNCHANGED <<cursor, tasks, notes, idx>>
    /\ UNCHANGED <<now, shift, patients, orders, patients_by_id, scored>>
    /\ UNCHANGED <<storeVars, threadVars, urgencyVars>>

\* scheduler.py:323-327.
Return ==
    /\ pc = "return"
    /\ ReturnResponse([ generated_at |-> now, tasks |-> tasks, notes |-> notes ])
    /\ UNCHANGED <<now, shift, patients, orders, patients_by_id, scored,
                   cursor, tasks, notes, idx>>
    /\ UNCHANGED <<storeVars, threadVars, urgencyVars>>

Next == Begin \/ Validate \/ SweepStep \/ Return

Spec == Init /\ [][Next]_vars

TypeOK ==
    /\ pc \in {"start", "validate", "sweep", "return", "done", "urgency",
              "urgency_done", "demo", "idle"}
    /\ outcome.kind \in {"pending", "returned", "raised"}
    /\ (pc = "done") = (outcome.kind # "pending")

(***************************************************************************)
(* Vocabulary of the properties.                                           *)
(***************************************************************************)
ValidWindow == shift.end_at > shift.start_at

\* max(shift.start_at, now), the cursor the spec prescribes.
WindowOpen == Max(shift.start_at, now)

Entered == pc # "start"

\* The call has ended by returning a response that carries generated_at,
\* tasks and notes.
HasResponse ==
    /\ outcome.kind = "returned"
    /\ {"generated_at", "tasks", "notes"} \subseteq DOMAIN outcome.value

KnownIds == { patients[i].id : i \in 1..Len(patients) }

RECURSIVE SumDurations(_)
\* Total duration of the k highest-ranked orders.
SumDurations(k) ==
    IF k = 0 THEN 0
    ELSE SumDurations(k - 1) + scored[k].order.duration_minutes

\* The k highest-ranked orders fit end to end from the window's opening.
PrefixFits(k) ==
    /\ k <= Len(scored)
    /\ WindowOpen + SumDurations(k) <= shift.end_at

\* The ranked orders that the sweep of spec 4.2 places.
FitCount ==
    CHOOSE k \in 0..Len(scored) :
        /\ PrefixFits(k)
        /\ k < Len(scored) => ~PrefixFits(k + 1)

Perms(n) == { f \in [1..n -> 1..n] : \A i, j \in 1..n : f[i] = f[j] => i = j }
Permute(os, f) == [ i \in 1..Len(os) |-> os[f[i]] ]

(***************************************************************************)
(* C2  Total order of the ranked list: adjacent items of score_orders'     *)
(* output have non-increasing score, and equal scores have non-decreasing  *)
(* due_at; and of two ranked items with identical score that both fit in   *)
(* the window, generate_schedule places both, the one with the earlier     *)
(* due_at before the other.                                                *)
(***************************************************************************)
C2_TotalOrder ==
    /\ Entered =>
          \A i \in 1..(Len(scored) - 1) :
              /\ FGe(scored[i].score, scored[i + 1].score)
              /\ scored[i].score = scored[i + 1].score =>
                    scored[i].order.due_at <= scored[i + 1].order.due_at
    /\ (pc = "done" /\ ValidWindow) =>
          \A i, j \in 1..Len(scored) :
              (/\ scored[i].score = scored[j].score
               /\ scored[i].order.due_at < scored[j].order.due_at
               /\ PrefixFits(Max(i, j))) =>
                  \E a, b \in 1..Len(tasks) :
                      /\ a < b
                      /\ tasks[a].order_id = scored[i].order.id
                      /\ tasks[b].order_id = scored[j].order.id

(***************************************************************************)
(* C3  generate_schedule never raises: every call ends by returning a      *)
(* response with generated_at, tasks and notes, each task carrying order   *)
(* id, patient id, patient display name, start, end, score and             *)
(* explanation.                                                            *)
(***************************************************************************)
C3_NeverRaises ==
    pc = "done" =>
        /\ HasResponse
        /\ \A i \in 1..Len(outcome.value.tasks) :
              { "order_id", "patient_id", "patient_display_name", "starts_at",
                "ends_at", "priority_score", "summary", "score_breakdown" }
                  \subseteq DOMAIN outcome.value.tasks[i]

(***************************************************************************)
(* C4  Referential exclusion: an order whose patient_id matches no patient *)
(* of the request is in neither the ranked list nor the tasks, and adds no *)
(* note: a note is only ever appended on behalf of a ranked item, that is, *)
(* of an order of a known patient.                                         *)
(***************************************************************************)
C4_ReferentialExclusion ==
    Entered =>
        /\ \A i \in 1..Len(scored) : scored[i].order.patient_id \in KnownIds
        /\ \A i \in 1..Len(tasks) : tasks[i].patient_id \in KnownIds
        /\ Len(scored) =
              Cardinality({ i \in 1..Len(orders) : orders[i].patient_id \in KnownIds })
        /\ notes # << >> =>
              /\ idx \in 1..Len(scored)
              /\ \A i \in 1..Len(notes) : notes[i] \in {NoteFull, NoteExceed}

\* The sweep has run to its end over a request with an order of an unknown
\* patient: that order is not ranked and no note stands for it.
C4_Witness ==
    /\ pc = "return"
    /\ \E i \in 1..Len(orders) : orders[i].patient_id \notin KnownIds
    /\ Len(scored) < Len(orders)
    /\ notes = << >>

Range(q) == { q[i] : i \in 1..Len(q) }

(***************************************************************************)
(* C5  Stop at the first misfit: when the next ranked item does not fit in *)
(* what is left of the window, the response carries the note 'A task would *)
(* exceed shift end', and its tasks are exactly the ranked items before    *)
(* that one, in rank order, each with its full duration.                   *)
(***************************************************************************)
C5_StopAtFirstMisfit ==
    (/\ pc = "done"
     /\ ValidWindow
     /\ WindowOpen < shift.end_at
     /\ FitCount < Len(scored)
     /\ WindowOpen + SumDurations(FitCount) < shift.end_at) =>
        /\ HasResponse
        /\ NoteExceed \in Range(outcome.value.notes)
        /\ Len(outcome.value.tasks) = FitCount
        /\ \A i \in 1..FitCount :
              /\ outcome.value.tasks[i].order_id = scored[i].order.id
              /\ outcome.value.tasks[i].ends_at - outcome.value.tasks[i].starts_at
                    = scored[i].order.duration_minutes

(***************************************************************************)
(* C6  Invalid window: if shift.end_at <= shift.start_at the call returns  *)
(* zero tasks and notes holding the invalid-window note, not the           *)
(* window-elapsed note, whatever the reference time is.                    *)
(***************************************************************************)
C6_InvalidWindow ==
    (pc = "done" /\ ~ValidWindow) =>
        /\ HasResponse
        /\ outcome.value.tasks = << >>
        /\ NoteInvalidWindow \in Range(outcome.value.notes)
        /\ NoteElapsed \notin Range(outcome.value.notes)

(***************************************************************************)
(* C9  Input-order independence: for the captured reference time and       *)
(* patient map, every permutation of the request's orders is ranked into   *)
(* the same sequence, orders of equal score and equal due_at included.     *)
(***************************************************************************)
C9_OrderIrrelevant ==
    Entered =>
        \A f \in Perms(Len(orders)) :
            score_orders(now, patients_by_id, Permute(orders, f)) = scored

(***************************************************************************)
(* C10  Elapsed window: for a valid window with max(shift.start_at, now)   *)
(* >= shift.end_at the call returns zero tasks and exactly the             *)
(* window-elapsed note; with max(shift.start_at, now) < shift.end_at that  *)
(* note is never produced.                                                 *)
(***************************************************************************)
C10_ElapsedWindow ==
    (pc = "done" /\ ValidWindow) =>
        IF WindowOpen >= shift.end_at
        THEN /\ HasResponse
             /\ outcome.value.tasks = << >>
             /\ outcome.value.notes = << NoteElapsed >>
        ELSE /\ NoteElapsed \notin Range(notes)
             /\ HasResponse => NoteElapsed \notin Range(outcome.value.notes)

(***************************************************************************)
(* C11  Window exactly filled: when the placed tasks end exactly at        *)
(* shift.end_at, the response keeps them all, and carries the note 'Shift  *)
(* is full. Remaining tasks could not be scheduled.' if a ranked item is   *)
(* still unplaced and no note if none is.                                  *)
(***************************************************************************)
C11_ShiftFull ==
    (/\ pc = "done"
     /\ ValidWindow
     /\ WindowOpen < shift.end_at
     /\ WindowOpen + SumDurations(FitCount) = shift.end_at) =>
        /\ HasResponse
        /\ Len(outcome.value.tasks) = FitCount
        /\ outcome.value.notes =
              (IF FitCount < Len(scored) THEN << NoteFull >> ELSE << >>)

(***************************************************************************)
(* _compute_urgency on its own: one call on an argument drawn from         *)
(* -MaxOverdue..MaxUntilDue minutes.                                       *)
(***************************************************************************)
\* No call of generate_schedule is under way.
SchedIdle ==
    /\ shift = [ start_at |-> 0, end_at |-> 0 ]
    /\ patients = << >>
    /\ orders = << >>
    /\ patients_by_id = << >>
    /\ scored = << >>
    /\ cursor = 0
    /\ tasks = << >>
    /\ notes = << >>
    /\ idx = 0
    /\ outcome = Pending

InitUrgency ==
    /\ SchedIdle
    /\ now = 0
    /\ StoreEmpty
    /\ ThreadsIdle
    /\ pc = "urgency"
    /\ u_mins \in (-MaxOverdue)..MaxUntilDue
    /\ u_val = FZero

\* scheduler.py:163, urgency = _compute_urgency(mins).
ComputeUrgency ==
    /\ pc = "urgency"
    /\ u_val' = _compute_urgency(u_mins)
    /\ pc' = "urgency_done"
    /\ UNCHANGED <<now, shift, patients, orders, patients_by_id, scored,
                   cursor, tasks, notes, idx, outcome, u_mins>>
    /\ UNCHANGED <<storeVars, threadVars>>

NextUrgency == ComputeUrgency

SpecUrgency == InitUrgency /\ [][NextUrgency]_vars

(***************************************************************************)
(* C13 as stated: for a not-yet-due item the urgency is never below 0.2,   *)
(* is 1.5 at 120 minutes, and is strictly above 0.2 for every due time     *)
(* nearer than 552 minutes (9.2 hours).                                    *)
(***************************************************************************)
C13_FloorBeyond552 ==
    (pc = "urgency_done" /\ u_mins > 0) =>
        /\ FGe(u_val, Dec(2, 10))
        /\ u_mins = 120 => u_val = Dec(15, 10)
        /\ u_mins < 552 => FGt(u_val, Dec(2, 10))

\* x is 2.5 - m/120 to the fourth decimal place: round(x, 4) is the
\* decimal nearest to (300 - m)/120, which is never half-way between two.
Linear(x, m) ==
    LET d == 3 * FRoundDec(x, 10000) - 250 * (300 - m)
    IN  d \in {-1, 0, 1}

(***************************************************************************)
(* C13 amended: for a not-yet-due item the urgency is 2.5 - m/120 (linear  *)
(* from 2.5 at due-now, 1.5 at 120 minutes), strictly decreasing and       *)
(* strictly above 0.2 for every whole m up to 276 minutes (4.6 hours),     *)
(* where the float 2.5 - 276/120.0 still exceeds 0.2; it is exactly the    *)
(* floor 0.2 for every m from 277 on; it is never below 0.2.               *)
(***************************************************************************)
C13_FloorPast276 ==
    (pc = "urgency_done" /\ u_mins > 0) =>
        /\ FGe(u_val, Dec(2, 10))
        /\ u_mins = 120 => u_val = Dec(15, 10)
        /\ u_mins <= 276 =>
              /\ Linear(u_val, u_mins)
              /\ FGt(u_val, Dec(2, 10))
              /\ FGt(u_val, _compute_urgency(u_mins + 1))
        /\ u_mins > 276 => u_val = Dec(2, 10)

\* The first due time at which the floor applies, well short of 552.
C13_Witness ==
    /\ pc = "urgency_done"
    /\ u_mins = 277
    /\ u_val = Dec(2, 10)

(***************************************************************************)
(* C14  Overdue urgency: 3.0 at zero minutes overdue, non-decreasing in    *)
(* the minutes overdue, never above 5.0 and exactly 5.0 from 60 minutes    *)
(* overdue on; over all arguments the urgency is non-increasing in         *)
(* minutes_until_due.                                                      *)
(***************************************************************************)
C14_OverdueCapped ==
    pc = "urgency_done" =>
        /\ u_mins <= 0 =>
              /\ FGe(u_val, Dec(30, 10))
              /\ FLe(u_val, Dec(50, 10))
              /\ u_mins = 0 => u_val = Dec(30, 10)
              /\ u_mins <= -60 => u_val = Dec(50, 10)
              /\ FGe(_compute_urgency(u_mins - 1), u_val)
        /\ FLe(_compute_urgency(u_mins + 1), u_val)

\* An item overdue by more than an hour sits at the cap.
C14_Witness ==
    /\ pc = "urgency_done"
    /\ u_mins < -60
    /\ u_val = Dec(50, 10)

(***************************************************************************)
(* The demo request, api/routes/demo.py, posted to /schedule/generate.     *)
(***************************************************************************)
\* demo.py:50-96, the request demo_payload builds at clock reading t.
demo_payload(t) ==
    LET shift_start == t + 10
        shift_end == shift_start + 12 * 60
    IN  [ shift |-> [ start_at |-> shift_start, end_at |-> shift_end ],
          patients |->
              << [ id |-> "p1", display_name |-> "Patient A", acuity |-> "critical" ],
                 [ id |-> "p2", display_name |-> "Patient B", acuity |-> "low" ] >>,
          orders |->
              << [ id |-> "o1", patient_id |-> "p2", type |-> "medication",
                   due_at |-> shift_start + 45, duration_minutes |-> 10,
                   is_prn |-> FALSE, is_stat |-> FALSE ],
                 [ id |-> "o2", patient_id |-> "p1", type |-> "procedure",
                   due_at |-> shift_start + 90, duration_minutes |-> 20,
                   is_prn |-> FALSE, is_stat |-> TRUE ] >> ]

\* Minutes between the call of demo_payload and the call of
\* generate_schedule on its result.
DemoElapsed == {0, 5, 15, 715, 735}

\* now is the clock reading generate_schedule will capture.
InitDemo ==
    /\ SchedIdle
    /\ StoreEmpty
    /\ ThreadsIdle
    /\ UrgencyIdle
    /\ now \in 735..(735 + MaxDemoNow)
    /\ pc = "demo"

\* GET /demo/payload some minutes before the request is posted
\* (routes/schedule.py:7-9 hands it to generate_schedule).
DemoPayload ==
    /\ pc = "demo"
    /\ \E e \in DemoElapsed :
          LET req == demo_payload(now - e)
          IN  /\ shift' = req.shift
              /\ patients' = req.patients
              /\ orders' = req.orders
    /\ pc' = "start"
    /\ UNCHANGED <<now, patients_by_id, scored, cursor, tasks, notes, idx, outcome>>
    /\ UNCHANGED <<storeVars, threadVars, urgencyVars>>

NextDemo == DemoPayload \/ Begin \/ Validate \/ SweepStep \/ Return

SpecDemo == InitDemo /\ [][NextDemo]_vars

(***************************************************************************)
(* C15  The demo request scheduled at its own reference time T: the call   *)
(* returns exactly two tasks, the STAT procedure o2 first and the          *)
(* medication o1 second, and no notes.                                     *)
(***************************************************************************)
C15_DemoSchedule ==
    (pc = "done" /\ now = shift.start_at - 10) =>
        /\ HasResponse
        /\ Len(outcome.value.tasks) = 2
        /\ outcome.value.tasks[1].order_id = "o2"
        /\ outcome.value.tasks[2].order_id = "o1"
        /\ outcome.value.notes = << >>

(***************************************************************************)
(* The session store and its routes, core/state.py and                     *)
(* api/routes/state.py, served one request at a time.                      *)
(***************************************************************************)
StoreOrderIds == {"o1", "o2"}

\* The orders POST /state/orders is called with.
StoreOrders ==
    { [ id |-> i, patient_id |-> p, type |-> k.type, due_at |-> -90,
        duration_minutes |-> k.duration_minutes, is_prn |-> k.is_prn,
        is_stat |-> k.is_stat ] :
        i \in StoreOrderIds, p \in PatientIds, k \in OrderKinds }

\* The reply to a request: HTTP status, and the order id and patient id the
\* request named ("" when it names none).
Reply(op, status, id, patient_id) ==
    [ op |-> op, status |-> status, id |-> id, patient_id |-> patient_id ]

\* core/state.py:47-48, ShiftContext.has_patient.
has_patient(ps, patient_id) == \E i \in 1..Len(ps) : ps[i].id = patient_id

\* routes/state.py:84, set_shift without the check.
InvalidShift_Never(s) == FALSE

\* routes/state.py:84.
InvalidShift(s) == s.end_at <= s.start_at

\* routes/state.py:106-107, len(ids) != len(set(ids)).
DuplicateIds(ps) == Len(ps) # Cardinality({ ps[i].id : i \in 1..Len(ps) })

\* routes/state.py:120 without the clean-up: every order is kept.
FilterOrders_KeepAll(os, patient_ids) == os

\* routes/state.py:119-120, [o for o in ctx.orders if o.patient_id in patient_ids].
FilterOrders(os, patient_ids) ==
    SelectSeq(os, LAMBDA o : o.patient_id \in patient_ids)

\* routes/state.py:141 without the check.
HasOrderId_Never(os, id) == FALSE

\* routes/state.py:141, any(o.id == order.id for o in ctx.orders).
HasOrderId(os, id) == \E i \in 1..Len(os) : os[i].id = id

\* routes/state.py:162, [o for o in ctx.orders if o.id != order_id].
RemoveOrder(os, order_id) == SelectSeq(os, LAMBDA o : o.id # order_id)

InitStore ==
    /\ SchedIdle
    /\ now = 0
    /\ StoreEmpty
    /\ ThreadsIdle
    /\ UrgencyIdle
    /\ pc = "idle"

\* routes/state.py:47-61.
get_state ==
    /\ pc = "idle"
    /\ reply' = Reply("get_state", 200, "", "")
    /\ UNCHANGED <<ctx_shift, ctx_patients, ctx_orders>>
    /\ UNCHANGED <<schedVars, threadVars, urgencyVars>>

\* routes/state.py:64-74 and core/state.py:67-73.
reset_state ==
    /\ pc = "idle"
    /\ ctx_shift' = << >>
    /\ ctx_patients' = << >>
    /\ ctx_orders' = << >>
    /\ reply' = Reply("reset_state", 204, "", "")
    /\ UNCHANGED <<schedVars, threadVars, urgencyVars>>

\* routes/state.py:77-92, the handler: its one access to the store is the
\* assignment of line 91.
SetShift(shifts) ==
    /\ \E s \in shifts :
          IF InvalidShift(s)
          THEN /\ reply' = Reply("set_shift", 422, "", "")
               /\ UNCHANGED ctx_shift
          ELSE /\ ctx_shift' = << s >>
               /\ reply' = Reply("set_shift", 200, "", "")
    /\ UNCHANGED <<ctx_patients, ctx_orders>>
    /\ UNCHANGED <<schedVars, threadVars, urgencyVars>>

\* set_shift served while no other request is being served.
set_shift ==
    /\ pc = "idle"
    /\ SetShift([ start_at : ShiftTimes, end_at : ShiftTimes ])

\* routes/state.py:95-122.
set_patients ==
    /\ pc = "idle"
    /\ \E ps \in PatientLists :
          IF DuplicateIds(ps)
          THEN /\ reply' = Reply("set_patients", 422, "", "")
               /\ UNCHANGED <<ctx_patients, ctx_orders>>
          ELSE /\ ctx_patients' = ps
               /\ ctx_orders' =
                     FilterOrders(ctx_orders, { ps[i].id : i \in 1..Len(ps) })
               /\ reply' = Reply("set_patients", 200, "", "")
    /\ UNCHANGED ctx_shift
    /\ UNCHANGED <<schedVars, threadVars, urgencyVars>>

\* routes/state.py:125-148.
add_order ==
    /\ pc = "idle"
    /\ Len(ctx_orders) < MaxStoreOrders
    /\ \E order \in StoreOrders :
          IF ~has_patient(ctx_patients, order.patient_id)
          THEN /\ reply' = Reply("add_order", 422, order.id, order.patient_id)
               /\ UNCHANGED ctx_orders
          ELSE IF HasOrderId(ctx_orders, order.id)
          THEN /\ reply' = Reply("add_order", 409, order.id, order.patient_id)
               /\ UNCHANGED ctx_orders
          ELSE /\ ctx_orders' = Append(ctx_orders, order)
               /\ reply' = Reply("add_order", 201, order.id, order.patient_id)
    /\ UNCHANGED <<ctx_shift, ctx_patients>>
    /\ UNCHANGED <<schedVars, threadVars, urgencyVars>>

\* routes/state.py:151-168.
delete_order ==
    /\ pc = "idle"
    /\ \E order_id \in StoreOrderIds :
          LET before == Len(ctx_orders)
              kept == RemoveOrder(ctx_orders, order_id)
          IN  /\ ctx_orders' = kept
              /\ reply' = Reply("delete_order",
                                IF Len(kept) = before THEN 404 ELSE 204,
                                order_id, "")
    /\ UNCHANGED <<ctx_shift, ctx_patients>>
    /\ UNCHANGED <<schedVars, threadVars, urgencyVars>>

\* routes/state.py:183, replan with the test always true.
ShiftNotSet_Always(s) == TRUE

\* routes/state.py:183, ctx.shift is None.
ShiftNotSet(s) == s = << >>

\* routes/state.py:171-196 up to the call of generate_schedule: without a
\* shift the request is refused; otherwise the ScheduleRequest is built
\* from the store and generate_schedule starts on it.
replan ==
    /\ pc = "idle"
    /\ IF ShiftNotSet(ctx_shift)
       THEN /\ reply' = Reply("replan", 422, "", "")
            /\ UNCHANGED schedVars
       ELSE /\ shift' = ctx_shift[1]
            /\ patients' = ctx_patients
            /\ orders' = ctx_orders
            /\ now' \in NowTimes
            /\ pc' = "start"
            /\ UNCHANGED <<patients_by_id, scored, cursor, tasks, notes, idx,
                           outcome, reply>>
    /\ UNCHANGED <<ctx_shift, ctx_patients, ctx_orders>>
    /\ UNCHANGED <<threadVars, urgencyVars>>

\* routes/state.py:196, return generate_schedule(req): the response is sent
\* with status 200, an exception raised by the call is answered with 500;
\* the locals of the call are gone.
replan_end ==
    /\ pc = "done"
    /\ reply' = Reply("replan", IF outcome.kind = "returned" THEN 200 ELSE 500,
                      "", "")
    /\ pc' = "idle"
    /\ now' = 0
    /\ shift' = [ start_at |-> 0, end_at |-> 0 ]
    /\ patients' = << >>
    /\ orders' = << >>
    /\ patients_by_id' = << >>
    /\ scored' = << >>
    /\ cursor' = 0
    /\ tasks' = << >>
    /\ notes' = << >>
    /\ idx' = 0
    /\ outcome' = Pending
    /\ UNCHANGED <<ctx_shift, ctx_patients, ctx_orders>>
    /\ UNCHANGED <<threadVars, urgencyVars>>

NextStore ==
    \/ get_state
    \/ reset_state
    \/ set_shift
    \/ set_patients
    \/ add_order
    \/ delete_order
    \/ replan
    \/ Begin
    \/ Validate
    \/ SweepStep
    \/ Return
    \/ replan_end

SpecStore == InitStore /\ [][NextStore]_vars

(***************************************************************************)
(* Vocabulary of the store properties.                                     *)
(***************************************************************************)
storeContent == <<ctx_shift, ctx_patients, ctx_orders>>

\* A step that serves one whole request of a state route; reply' is the
\* reply to that request.
Served(op) == pc = "idle" /\ pc' = "idle" /\ reply'.op = op

\* Every stored order references a stored patient.
StoreReferential ==
    \A i \in 1..Len(ctx_orders) :
        has_patient(ctx_patients, ctx_orders[i].patient_id)

UniqueOrderIds ==
    \A i, j \in 1..Len(ctx_orders) :
        ctx_orders[i].id = ctx_orders[j].id => i = j

(***************************************************************************)
(* C16  Referential invariant of the store: with the state routes served   *)
(* one at a time, every stored order references a stored patient; an       *)
(* add_order naming an unknown patient is answered with an error and       *)
(* leaves the store as it was; a set_patients that is accepted keeps       *)
(* exactly the orders whose patient is in the new list.                    *)
(***************************************************************************)
C16_StoreReferential ==
    /\ []StoreReferential
    /\ [][ /\ (Served("add_order")
                 /\ ~has_patient(ctx_patients, reply'.patient_id)) =>
                   (reply'.status = 422 /\ UNCHANGED storeContent)
           /\ (Served("set_patients") /\ reply'.status = 200) =>
                   ctx_orders' =
                       SelectSeq(ctx_orders,
                                 LAMBDA o : has_patient(ctx_patients', o.patient_id))
         ]_vars

\* An order naming a patient that is not stored was just refused while
\* other orders are stored.
C16_Witness ==
    /\ pc = "idle"
    /\ reply.op = "add_order"
    /\ reply.status = 422
    /\ ~has_patient(ctx_patients, reply.patient_id)
    /\ ctx_orders # << >>

(***************************************************************************)
(* C17  The stored shift is unset or has end_at > start_at: a set_shift    *)
(* that is refused leaves shift, patients and orders as they were, and     *)
(* every request replan hands to generate_schedule has a valid window.     *)
(***************************************************************************)
C17_StoredShiftValid ==
    /\ [](ctx_shift # << >> => ctx_shift[1].end_at > ctx_shift[1].start_at)
    /\ [](pc \in {"start", "validate", "sweep", "return", "done"} =>
             shift.end_at > shift.start_at)
    /\ [][ (Served("set_shift") /\ reply'.status # 200) =>
               (reply'.status = 422 /\ UNCHANGED storeContent) ]_vars

\* A set_shift was just refused while a shift is stored.
C17_Witness ==
    /\ pc = "idle"
    /\ reply.op = "set_shift"
    /\ reply.status = 422
    /\ ctx_shift # << >>

(***************************************************************************)
(* C20 as stated: stored order ids are unique; an add_order whose id is    *)
(* already stored is answered with the conflict error (409) and leaves the *)
(* store as it was; a delete_order of a stored id removes that order and   *)
(* nothing else; a delete_order of an id not stored is answered not-found  *)
(* (404) and leaves the stored orders as they were.                        *)
(***************************************************************************)
DeleteExact ==
    Served("delete_order") =>
        /\ UNCHANGED <<ctx_shift, ctx_patients>>
        /\ IF HasOrderId(ctx_orders, reply'.id)
           THEN /\ reply'.status = 204
                /\ ctx_orders' =
                      SelectSeq(ctx_orders, LAMBDA o : o.id # reply'.id)
                /\ Len(ctx_orders') = Len(ctx_orders) - 1
           ELSE /\ reply'.status = 404
                /\ ctx_orders' = ctx_orders

C20_DuplicateIsConflict ==
    /\ []UniqueOrderIds
    /\ [][ /\ (Served("add_order") /\ HasOrderId(ctx_orders, reply'.id)) =>
                   (reply'.status = 409 /\ UNCHANGED storeContent)
           /\ DeleteExact
         ]_vars

(***************************************************************************)
(* C20 amended: as above, except that an add_order whose id is already     *)
(* stored is refused with the conflict error (409) when its patient is     *)
(* stored and with the unknown-patient error (422) when it is not; in both *)
(* cases the store is left as it was.                                      *)
(***************************************************************************)
C20_UniqueOrderIds ==
    /\ []UniqueOrderIds
    /\ [][ /\ (Served("add_order") /\ HasOrderId(ctx_orders, reply'.id)) =>
                   /\ reply'.status =
                         (IF has_patient(ctx_patients, reply'.patient_id)
                          THEN 409 ELSE 422)
                   /\ UNCHANGED storeContent
           /\ DeleteExact
         ]_vars

\* An add_order with a stored id and a stored patient was just refused as a
\* conflict, the store holding two orders.
C20_Witness ==
    /\ pc = "idle"
    /\ reply.op = "add_order"
    /\ reply.status = 409
    /\ Len(ctx_orders) = 2

(***************************************************************************)
(* The state routes served concurrently (FastAPI runs `def` routes in a    *)
(* thread pool; nothing in core/state.py or routes/state.py takes a lock). *)
(* One request of each route can be in flight, at most MaxInFlight         *)
(* requests at once, a thread switch being possible between any two of a   *)
(* handler's accesses to the store and between its last access and its     *)
(* reply.  A handler works on the ShiftContext object get_context() gave   *)
(* it; reset_context() binds _CONTEXT to a new object, and the handlers in *)
(* flight keep the one they hold.                                          *)
(*   ctx_shift, ctx_patients, ctx_orders : the object _CONTEXT is bound to *)
(*   orphans[k]                          : an object a reset replaced and  *)
(*                                         a handler in flight has yet to  *)
(*                                         access                          *)
(*   t.ctx                               : the object handler t works on,  *)
(*                                         0 for the one of _CONTEXT       *)
(*   t.pc = "reply"                      : handler t has made its last     *)
(*                                         access and has yet to reply     *)
(***************************************************************************)
\* What the concurrent requests are called with: one valid and one invalid
\* shift; no patient, patient p1, or p1 twice; the order o1 for p1, which
\* can be stored twice; delete_order is called with o1 or o2; the clock of
\* generate_schedule reads 0.
ConcShifts ==
    { [ start_at |-> 0, end_at |-> 2 ], [ start_at |-> 2, end_at |-> 0 ] }

ConcPatientLists ==
    LET A == CHOOSE p \in PatientPool : p.id = "p1"
    IN  { << >>, <<A>>, <<A, A>> }

ConcOrders ==
    { o \in StoreOrders :
        o.type = "lab" /\ o.patient_id = "p1" /\ o.id = "o1" }

ConcNow == {0}

\* The replaced objects that can be held at once.
OrphanIds == 1..(MaxInFlight - 1)

\* The states of replan in which it still reads from the object it holds.
PlanStorePcs == {"check", "read_shift", "read_patients", "read_orders"}

\* The handlers and what they hold.
Threads ==
    [ add |-> t_add, set |-> t_set, del |-> t_del, shift |-> t_shift,
      get |-> t_get, reset |-> t_reset,
      plan |-> [ pc |-> IF pc \in PlanStorePcs THEN "busy" ELSE "idle",
                 ctx |-> t_plan.ctx ] ]

\* The handler t has accesses to the store ahead of it.
Holds(t) == t.pc \notin {"idle", "reply"}

\* The number of requests being served.
InFlight ==
    Cardinality({ n \in {"add", "set", "del", "shift", "get", "reset"} :
                     Threads[n].pc # "idle" })
    + (IF pc # "idle" THEN 1 ELSE 0)

\* A request is only sent while fewer than MaxInFlight are being served.
Arrive == InFlight < MaxInFlight

\* The objects held by the handlers in flight other than self.
Held(self) ==
    { Threads[n].ctx :
        n \in { m \in DOMAIN Threads : m # self /\ Holds(Threads[m]) } }

\* core/state.py:32-45, the fields of the ShiftContext object c.
Ctx(c) ==
    IF c = 0
    THEN [ shift |-> ctx_shift, patients |-> ctx_patients,
           orders |-> ctx_orders ]
    ELSE orphans[c]

\* No object is written.
Keep == UNCHANGED <<ctx_shift, ctx_patients, ctx_orders, orphans>>

\* The object c becomes new.
Put(c, new) ==
    IF c = 0
    THEN /\ ctx_shift' = new.shift
         /\ ctx_patients' = new.patients
         /\ ctx_orders' = new.orders
         /\ UNCHANGED orphans
    ELSE /\ orphans' = [ orphans EXCEPT ![c] = new ]
         /\ UNCHANGED <<ctx_shift, ctx_patients, ctx_orders>>

\* The handler self makes its last access, leaving the object c as new: a
\* replaced object that no handler has yet to access is gone.
Leave(self, c, new) ==
    IF c = 0 \/ c \in Held(self)
    THEN Put(c, new)
    ELSE /\ orphans' = [ k \in (DOMAIN orphans) \ {c} |-> orphans[k] ]
         /\ UNCHANGED <<ctx_shift, ctx_patients, ctx_orders>>

\* The order lists that are stored or about to be stored.
LiveLists ==
    {ctx_orders}
    \cup { orphans[k].orders : k \in DOMAIN orphans }
    \cup (IF t_set.pc = "store" THEN {t_set.kept} ELSE {})
    \cup (IF t_del.pc = "store" THEN {t_del.kept} ELSE {})

InitConc == InitStore

\* routes/state.py:64-74 and core/state.py:67-73: _CONTEXT is bound to a
\* new ShiftContext; the handlers in flight keep the object they hold.
ConcReset ==
    /\ t_reset.pc = "idle"
    /\ Arrive
    /\ IF 0 \in Held("reset")
       THEN LET free == OrphanIds \ DOMAIN orphans
                k == CHOOSE i \in free : \A j \in free : i <= j
                move(t) == IF Holds(t) /\ t.ctx = 0
                           THEN [ t EXCEPT !.ctx = k ] ELSE t
            IN  /\ orphans' = [ i \in (DOMAIN orphans) \cup {k} |->
                                  IF i = k THEN Ctx(0) ELSE orphans[i] ]
                /\ t_add' = move(t_add)
                /\ t_set' = move(t_set)
                /\ t_del' = move(t_del)
                /\ t_shift' = move(t_shift)
                /\ t_get' = move(t_get)
                /\ t_plan' = IF pc \in PlanStorePcs /\ t_plan.ctx = 0
                             THEN [ ctx |-> k ] ELSE t_plan
       ELSE UNCHANGED <<t_add, t_set, t_del, t_shift, t_get, t_plan, orphans>>
    /\ ctx_shift' = << >>
    /\ ctx_patients' = << >>
    /\ ctx_orders' = << >>
    /\ t_reset' = [ pc |-> "reply" ]
    /\ UNCHANGED <<schedVars, reply, urgencyVars>>

\* routes/state.py:74, reset_context() has returned: reset_state returns
\* and the response is sent.
ResetReply ==
    /\ t_reset.pc = "reply"
    /\ reply' = Reply("reset_state", 204, "", "")
    /\ t_reset' = IdleThread
    /\ Keep
    /\ UNCHANGED <<schedVars, t_add, t_set, t_del, t_shift, t_get, t_plan,
                   urgencyVars>>

\* get_state, routes/state.py:55, ctx = get_context().
GetStart ==
    /\ t_get.pc = "idle"
    /\ Arrive
    /\ t_get' = [ pc |-> "read_shift", ctx |-> 0 ]
    /\ Keep
    /\ UNCHANGED <<schedVars, reply, t_add, t_set, t_del, t_shift, t_reset,
                   t_plan, urgencyVars>>

\* routes/state.py:57, shift=ctx.shift.
GetShift ==
    /\ t_get.pc = "read_shift"
    /\ t_get' = [ pc |-> "read_patients", ctx |-> t_get.ctx,
                  shift |-> Ctx(t_get.ctx).shift ]
    /\ Keep
    /\ UNCHANGED <<schedVars, reply, t_add, t_set, t_del, t_shift, t_reset,
                   t_plan, urgencyVars>>

\* routes/state.py:58, patients=ctx.patients.
GetPatients ==
    /\ t_get.pc = "read_patients"
    /\ t_get' = [ pc |-> "read_orders", ctx |-> t_get.ctx,
                  shift |-> t_get.shift,
                  patients |-> Ctx(t_get.ctx).patients ]
    /\ Keep
    /\ UNCHANGED <<schedVars, reply, t_add, t_set, t_del, t_shift, t_reset,
                   t_plan, urgencyVars>>

\* routes/state.py:59, orders=ctx.orders.
GetOrders ==
    /\ t_get.pc = "read_orders"
    /\ Leave("get", t_get.ctx, Ctx(t_get.ctx))
    /\ t_get' = [ pc |-> "reply" ]
    /\ UNCHANGED <<schedVars, reply, t_add, t_set, t_del, t_shift, t_reset,
                   t_plan, urgencyVars>>

\* routes/state.py:56-61, the StateResponse is built and returned.
GetReply ==
    /\ t_get.pc = "reply"
    /\ reply' = Reply("get_state", 200, "", "")
    /\ t_get' = IdleThread
    /\ Keep
    /\ UNCHANGED <<schedVars, t_add, t_set, t_del, t_shift, t_reset,
                   t_plan, urgencyVars>>

\* set_shift, routes/state.py:84-90: the argument is checked and refused
\* without an access to the store, or ctx = get_context().
ShiftStart ==
    /\ t_shift.pc = "idle"
    /\ Arrive
    /\ \E s \in ConcShifts :
          t_shift' = IF InvalidShift(s)
                     THEN [ pc |-> "reply", status |-> 422 ]
                     ELSE [ pc |-> "assign", ctx |-> 0, shift |-> s ]
    /\ Keep
    /\ UNCHANGED <<schedVars, reply, t_add, t_set, t_del, t_get, t_reset,
                   t_plan, urgencyVars>>

\* routes/state.py:91, ctx.shift = shift.
ShiftAssign ==
    /\ t_shift.pc = "assign"
    /\ Leave("shift", t_shift.ctx,
             [ Ctx(t_shift.ctx) EXCEPT !.shift = << t_shift.shift >> ])
    /\ t_shift' = [ pc |-> "reply", status |-> 200 ]
    /\ UNCHANGED <<schedVars, reply, t_add, t_set, t_del, t_get, t_reset,
                   t_plan, urgencyVars>>

\* routes/state.py:85-88 and 92: the HTTPException is raised (422) or the
\* shift is returned (200).
ShiftReply ==
    /\ t_shift.pc = "reply"
    /\ reply' = Reply("set_shift", t_shift.status, "", "")
    /\ t_shift' = IdleThread
    /\ Keep
    /\ UNCHANGED <<schedVars, t_add, t_set, t_del, t_get, t_reset,
                   t_plan, urgencyVars>>

\* add_order, routes/state.py:132: the request arrives, ctx = get_context().
\* Requests are only sent while every order list, stored or about to be
\* stored, is shorter than MaxConcOrders.
AddStart ==
    /\ t_add.pc = "idle"
    /\ Arrive
    /\ \A l \in LiveLists : Len(l) < MaxConcOrders
    /\ \E order \in ConcOrders :
          t_add' = [ pc |-> "check_patient", ctx |-> 0, order |-> order ]
    /\ Keep
    /\ UNCHANGED <<schedVars, reply, t_set, t_del, t_shift, t_get, t_reset,
                   t_plan, urgencyVars>>

\* routes/state.py:134, the test ctx.has_patient(order.patient_id): with
\* no such patient the handler goes on to raise.
AddCheckPatient ==
    /\ t_add.pc = "check_patient"
    /\ IF ~has_patient(Ctx(t_add.ctx).patients, t_add.order.patient_id)
       THEN /\ Leave("add", t_add.ctx, Ctx(t_add.ctx))
            /\ t_add' = [ pc |-> "reply", status |-> 422,
                          order |-> t_add.order ]
       ELSE /\ t_add' = [ t_add EXCEPT !.pc = "check_dup" ]
            /\ Keep
    /\ UNCHANGED <<schedVars, reply, t_set, t_del, t_shift, t_get, t_reset,
                   t_plan, urgencyVars>>

\* routes/state.py:141, the test any(o.id == order.id for o in ctx.orders):
\* with such an order the handler goes on to raise.
AddCheckDup ==
    /\ t_add.pc = "check_dup"
    /\ IF HasOrderId(Ctx(t_add.ctx).orders, t_add.order.id)
       THEN /\ Leave("add", t_add.ctx, Ctx(t_add.ctx))
            /\ t_add' = [ pc |-> "reply", status |-> 409,
                          order |-> t_add.order ]
       ELSE /\ t_add' = [ t_add EXCEPT !.pc = "append" ]
            /\ Keep
    /\ UNCHANGED <<schedVars, reply, t_set, t_del, t_shift, t_get, t_reset,
                   t_plan, urgencyVars>>

\* routes/state.py:147, ctx.orders.append(order).
AddAppend ==
    /\ t_add.pc = "append"
    /\ Leave("add", t_add.ctx,
             [ Ctx(t_add.ctx) EXCEPT !.orders = Append(@, t_add.order) ])
    /\ t_add' = [ pc |-> "reply", status |-> 201, order |-> t_add.order ]
    /\ UNCHANGED <<schedVars, reply, t_set, t_del, t_shift, t_get, t_reset,
                   t_plan, urgencyVars>>

\* routes/state.py:135-138, 142-145 and 148: the HTTPException is raised
\* (422, 409) or the order is returned (201).
AddReply ==
    /\ t_add.pc = "reply"
    /\ reply' = Reply("add_order", t_add.status, t_add.order.id,
                      t_add.order.patient_id)
    /\ t_add' = IdleThread
    /\ Keep
    /\ UNCHANGED <<schedVars, t_set, t_del, t_shift, t_get, t_reset,
                   t_plan, urgencyVars>>

\* set_patients, routes/state.py:106-113: the argument is checked and
\* refused without an access to the store, or ctx = get_context().
SetStart ==
    /\ t_set.pc = "idle"
    /\ Arrive
    /\ \E ps \in ConcPatientLists :
          t_set' = IF DuplicateIds(ps)
                   THEN [ pc |-> "reply", status |-> 422 ]
                   ELSE [ pc |-> "assign", ctx |-> 0, patients |-> ps ]
    /\ Keep
    /\ UNCHANGED <<schedVars, reply, t_add, t_del, t_shift, t_get, t_reset,
                   t_plan, urgencyVars>>

\* routes/state.py:114, ctx.patients = patients.
SetAssign ==
    /\ t_set.pc = "assign"
    /\ Put(t_set.ctx, [ Ctx(t_set.ctx) EXCEPT !.patients = t_set.patients ])
    /\ t_set' = [ t_set EXCEPT !.pc = "filter" ]
    /\ UNCHANGED <<schedVars, reply, t_add, t_del, t_shift, t_get, t_reset,
                   t_plan, urgencyVars>>

\* routes/state.py:119-120, the right-hand side: the list comprehension
\* over ctx.orders.
SetFilter ==
    /\ t_set.pc = "filter"
    /\ t_set' = [ pc |-> "store", ctx |-> t_set.ctx,
                  patients |-> t_set.patients,
                  kept |-> FilterOrders(Ctx(t_set.ctx).orders,
                              { t_set.patients[i].id :
                                   i \in 1..Len(t_set.patients) }) ]
    /\ Keep
    /\ UNCHANGED <<schedVars, reply, t_add, t_del, t_shift, t_get, t_reset,
                   t_plan, urgencyVars>>

\* routes/state.py:120, the assignment to ctx.orders.
SetStore ==
    /\ t_set.pc = "store"
    /\ Leave("set", t_set.ctx, [ Ctx(t_set.ctx) EXCEPT !.orders = t_set.kept ])
    /\ t_set' = [ pc |-> "reply", status |-> 200 ]
    /\ UNCHANGED <<schedVars, reply, t_add, t_del, t_shift, t_get, t_reset,
                   t_plan, urgencyVars>>

\* routes/state.py:108-111 and 122: the HTTPException is raised (422) or
\* the patients are returned (200).
SetReply ==
    /\ t_set.pc = "reply"
    /\ reply' = Reply("set_patients", t_set.status, "", "")
    /\ t_set' = IdleThread
    /\ Keep
    /\ UNCHANGED <<schedVars, t_add, t_del, t_shift, t_get, t_reset,
                   t_plan, urgencyVars>>

\* delete_order, routes/state.py:160, ctx = get_context().
DelStart ==
    /\ t_del.pc = "idle"
    /\ Arrive
    /\ \E order_id \in StoreOrderIds :
          t_del' = [ pc |-> "before", ctx |-> 0, order_id |-> order_id ]
    /\ Keep
    /\ UNCHANGED <<schedVars, reply, t_add, t_set, t_shift, t_get, t_reset,
                   t_plan, urgencyVars>>

\* routes/state.py:161, before = len(ctx.orders).
DelBefore ==
    /\ t_del.pc = "before"
    /\ t_del' = [ pc |-> "filter", ctx |-> t_del.ctx,
                  order_id |-> t_del.order_id,
                  before |-> Len(Ctx(t_del.ctx).orders) ]
    /\ Keep
    /\ UNCHANGED <<schedVars, reply, t_add, t_set, t_shift, t_get, t_reset,
                   t_plan, urgencyVars>>

\* routes/state.py:162, the right-hand side: the list comprehension over
\* ctx.orders.
DelFilter ==
    /\ t_del.pc = "filter"
    /\ t_del' = [ pc |-> "store", ctx |-> t_del.ctx,
                  order_id |-> t_del.order_id, before |-> t_del.before,
                  kept |-> RemoveOrder(Ctx(t_del.ctx).orders, t_del.order_id) ]
    /\ Keep
    /\ UNCHANGED <<schedVars, reply, t_add, t_set, t_shift, t_get, t_reset,
                   t_plan, urgencyVars>>

\* routes/state.py:162, the assignment to ctx.orders.
DelStore ==
    /\ t_del.pc = "store"
    /\ Put(t_del.ctx, [ Ctx(t_del.ctx) EXCEPT !.orders = t_del.kept ])
    /\ t_del' = [ pc |-> "compare", ctx |-> t_del.ctx,
                  order_id |-> t_del.order_id, before |-> t_del.before ]
    /\ UNCHANGED <<schedVars, reply, t_add, t_set, t_shift, t_get, t_reset,
                   t_plan, urgencyVars>>

\* routes/state.py:164, the test len(ctx.orders) == before.
DelCompare ==
    /\ t_del.pc = "compare"
    /\ Leave("del", t_del.ctx, Ctx(t_del.ctx))
    /\ t_del' = [ pc |-> "reply",
                  status |-> IF Len(Ctx(t_del.ctx).orders) = t_del.before
                             THEN 404 ELSE 204,
                  order_id |-> t_del.order_id ]
    /\ UNCHANGED <<schedVars, reply, t_add, t_set, t_shift, t_get, t_reset,
                   t_plan, urgencyVars>>

\* routes/state.py:165-168, the HTTPException is raised (404), or the
\* handler falls off its end (204).
DelReply ==
    /\ t_del.pc = "reply"
    /\ reply' = Reply("delete_order", t_del.status, t_del.order_id, "")
    /\ t_del' = IdleThread
    /\ Keep
    /\ UNCHANGED <<schedVars, t_add, t_set, t_shift, t_get, t_reset,
                   t_plan, urgencyVars>>

\* replan, routes/state.py:181, ctx = get_context().
ReplanStart ==
    /\ pc = "idle"
    /\ Arrive
    /\ pc' = "check"
    /\ t_plan' = [ ctx |-> 0 ]
    /\ Keep
    /\ UNCHANGED <<now, shift, patients, orders, patients_by_id, scored,
                   cursor, tasks, notes, idx, outcome>>
    /\ UNCHANGED <<reply, t_add, t_set, t_del, t_shift, t_get, t_reset,
                   urgencyVars>>

\* routes/state.py:183, the test ctx.shift is None: without a shift the
\* handler goes on to raise.
ReplanCheck ==
    /\ pc = "check"
    /\ IF ShiftNotSet(Ctx(t_plan.ctx).shift)
       THEN /\ pc' = "refuse"
            /\ Leave("plan", t_plan.ctx, Ctx(t_plan.ctx))
            /\ t_plan' = [ ctx |-> 0 ]
       ELSE /\ pc' = "read_shift"
            /\ Keep
            /\ UNCHANGED t_plan
    /\ UNCHANGED <<now, shift, patients, orders, patients_by_id, scored,
                   cursor, tasks, notes, idx, outcome>>
    /\ UNCHANGED <<reply, t_add, t_set, t_del, t_shift, t_get, t_reset,
                   urgencyVars>>

\* routes/state.py:184-187, the HTTPException 'Shift not set' is raised.
ReplanRefuse ==
    /\ pc = "refuse"
    /\ reply' = Reply("replan", 422, "", "")
    /\ pc' = "idle"
    /\ Keep
    /\ UNCHANGED <<now, shift, patients, orders, patients_by_id, scored,
                   cursor, tasks, notes, idx, outcome>>
    /\ UNCHANGED <<t_add, t_set, t_del, t_shift, t_get, t_reset, t_plan,
                   urgencyVars>>

\* routes/state.py:191, shift=ctx.shift.
ReplanReadShift ==
    /\ pc = "read_shift"
    /\ shift' = Ctx(t_plan.ctx).shift[1]
    /\ pc' = "read_patients"
    /\ UNCHANGED <<now, patients, orders, patients_by_id, scored, cursor,
                   tasks, notes, idx, outcome>>
    /\ UNCHANGED <<storeVars, threadVars, urgencyVars>>

\* routes/state.py:192, patients=ctx.patients.
ReplanReadPatients ==
    /\ pc = "read_patients"
    /\ patients' = Ctx(t_plan.ctx).patients
    /\ pc' = "read_orders"
    /\ UNCHANGED <<now, shift, orders, patients_by_id, scored, cursor, tasks,
                   notes, idx, outcome>>
    /\ UNCHANGED <<storeVars, threadVars, urgencyVars>>

\* routes/state.py:193-196, orders=ctx.orders; the ScheduleRequest is built
\* and generate_schedule starts on it: the handler reads the store no more.
ReplanReadOrders ==
    /\ pc = "read_orders"
    /\ orders' = Ctx(t_plan.ctx).orders
    /\ now' \in ConcNow
    /\ pc' = "start"
    /\ Leave("plan", t_plan.ctx, Ctx(t_plan.ctx))
    /\ t_plan' = [ ctx |-> 0 ]
    /\ UNCHANGED <<shift, patients, patients_by_id, scored, cursor, tasks,
                   notes, idx, outcome>>
    /\ UNCHANGED <<reply, t_add, t_set, t_del, t_shift, t_get, t_reset,
                   urgencyVars>>

NextConc ==
    \/ ConcReset \/ ResetReply
    \/ GetStart \/ GetShift \/ GetPatients \/ GetOrders \/ GetReply
    \/ ShiftStart \/ ShiftAssign \/ ShiftReply
    \/ AddStart \/ AddCheckPatient \/ AddCheckDup \/ AddAppend \/ AddReply
    \/ SetStart \/ SetAssign \/ SetFilter \/ SetStore \/ SetReply
    \/ DelStart \/ DelBefore \/ DelFilter \/ DelStore \/ DelCompare
    \/ DelReply
    \/ ReplanStart \/ ReplanCheck \/ ReplanRefuse \/ ReplanReadShift
    \/ ReplanReadPatients \/ ReplanReadOrders
    \/ Begin \/ Validate \/ SweepStep \/ Return \/ replan_end

SpecConc == InitConc /\ [][NextConc]_vars

(***************************************************************************)
(* Claims about the routes served concurrently.                            *)
(***************************************************************************)
\* C18: the request replan hands to generate_schedule is a snapshot of one
\* store state: every order in it references a patient in it, also when
\* set_patients, add_order and delete_order are served at the same time.
C18_ReplanSnapshot ==
    pc = "start" =>
        \A i \in 1..Len(orders) : has_patient(patients, orders[i].patient_id)

\* C19: with the steps of add_order and set_patients interleaved, every
\* stored order references a stored patient; stated for the states in which
\* no request is in flight any more.
C19_ConcurrentReferential ==
    InFlight = 0 =>
        \A i \in 1..Len(ctx_orders) :
            \E j \in 1..Len(ctx_patients) :
                ctx_patients[j].id = ctx_orders[i].patient_id

(***************************************************************************)
(* C21  Notes tell a partial schedule: for a valid window that has not     *)
(* elapsed the call returns a response whose notes are empty exactly when  *)
(* every ranked order was placed, and which carries exactly one note when  *)
(* a ranked order is left unplaced.                                        *)
(***************************************************************************)
C21_NotesTellPartial ==
    (/\ pc = "done"
     /\ ValidWindow
     /\ WindowOpen < shift.end_at) =>
        /\ HasResponse
        /\ (outcome.value.notes = << >>) <=>
              (Len(outcome.value.tasks) = Len(scored))
        /\ Len(outcome.value.tasks) < Len(scored) =>
              Len(outcome.value.notes) = 1

(***************************************************************************)
(* C23  With the state routes served one at a time: the store starts with  *)
(* no shift, gets one only by a set_shift that succeeds and loses it only  *)
(* by reset_state, which leaves no shift, no patients and no orders;       *)
(* replan is refused with 'Shift not set' (422), calling generate_schedule *)
(* not at all, when the store has no shift, and calls generate_schedule on *)
(* the stored shift, patients and orders when it has one; from the request *)
(* to the reply replan leaves the store as it was.                         *)
(***************************************************************************)
C23_ShiftNotSet ==
    /\ ctx_shift = << >>
    /\ [][ /\ (ctx_shift = << >> /\ ctx_shift' # << >>) =>
                  (Served("set_shift") /\ reply'.status = 200)
           /\ (Served("set_shift") /\ reply'.status = 200) => ctx_shift' # << >>
           /\ (ctx_shift # << >> /\ ctx_shift' = << >>) => Served("reset_state")
           /\ Served("reset_state") =>
                  (ctx_shift' = << >> /\ ctx_patients' = << >> /\ ctx_orders' = << >>)
           /\ Served("replan") =>
                  /\ ctx_shift = << >>
                  /\ reply'.status = 422
                  /\ outcome' = Pending
                  /\ UNCHANGED storeContent
           /\ (pc = "idle" /\ pc' # "idle") =>
                  /\ ctx_shift # << >>
                  /\ pc' = "start"
                  /\ shift' = ctx_shift[1]
                  /\ patients' = ctx_patients
                  /\ orders' = ctx_orders
           /\ (pc # "idle" \/ pc' # "idle") => UNCHANGED storeContent ]_vars

\* replan has been refused for want of a shift while patients and orders
\* are stored.
C23_Witness ==
    /\ pc = "idle"
    /\ reply.op = "replan"
    /\ reply.status = 422
    /\ ctx_shift = << >>
    /\ ctx_patients # << >>
    /\ ctx_orders # << >>

====
